---- MODULE Spec2Model ----
(***************************************************************************)
(* PostsListPage (src/src/pages/PostsListPage.tsx): the infinite-row-model *)
(* datasource built by buildDatasource, the grid-ready handler and the     *)
(* page-size change handler, together with the grid state those handlers   *)
(* write through GridApi and the HTTP exchanges getRows starts.            *)
(*                                                                         *)
(* One action is one run of the JavaScript event loop: a handler from its  *)
(* entry to its return, or an async function from one await to the next.   *)
(* A React state update made in a handler is committed by the re-render    *)
(* that ends the same event, so a handler's action includes that commit.   *)
(***************************************************************************)
EXTENDS Integers, Sequences, FiniteSets, TLC

\* ------------------------------------------------------------- bounds
MaxRequests == 2     \* getRows calls in one run
MaxChanges == 1      \* page-size selections in one run
MaxBlock == 1        \* highest row-block / pagination page the grid asks for
BackendTotal == 120  \* rows the listing endpoint holds

\* ---------------------------------------------------- program constants
pageSizeOptions == {10, 20, 50, 100}
InitialPageSize == 10

\* ------------------------------------------------------------- values
Absent == -1         \* a params field that is undefined
NoBlock == -1        \* a getRows call that no grid block made
Unset == 0           \* a grid option / datasource nobody has set yet

\* A JavaScript value as far as getRows handles it.
Undefined == [t |-> "undefined", n |-> 0, a |-> <<>>]
Num(n) == [t |-> "number", n |-> n, a |-> <<>>]
Str == [t |-> "string", n |-> 0, a |-> <<>>]
Arr(s) == [t |-> "array", n |-> 0, a |-> s]

NoBody == [t |-> "none", content |-> Undefined, page |-> Undefined,
           size |-> Undefined, totalElements |-> Undefined,
           totalPages |-> Undefined]

\* ------------------------------------------------------------- backend
Min(a, b) == IF a < b THEN a ELSE b

\* Rows are known by their id; the backend's row i has id i.
BackendRows(from, to) == [k \in 1..(IF to > from THEN to - from ELSE 0) |-> from + k - 1]

PageContent(page, size) ==
    BackendRows(Min(page * size, BackendTotal), Min((page + 1) * size, BackendTotal))

\* The PageResponse<Post> the endpoint returns for ?page=&size=
PageResponse(page, size) ==
    [t |-> "object",
     content |-> Arr(PageContent(page, size)),
     page |-> Num(page),
     size |-> Num(size),
     totalElements |-> Num(BackendTotal),
     totalPages |-> Num((BackendTotal + size - 1) \div size)]

\* Bodies a response may carry: text that is not JSON, the JSON null, an
\* object that lacks content and has a string for totalElements, and the
\* envelope.
Bodies(page, size) ==
    { [NoBody EXCEPT !.t = "invalidJson"],
      [NoBody EXCEPT !.t = "null"],
      [NoBody EXCEPT !.t = "object", !.totalElements = Str],
      PageResponse(page, size) }

TransportError == 0  \* fetch() rejected: no response at all
Statuses == {200, 404, 500}
Outcomes == {TransportError} \cup Statuses

\* The exchanges followed while the page is being reconfigured: one of each
\* way a fetch can end.
GridOutcomes == {TransportError, 200, 404}
GridBodies(page, size) ==
    { [NoBody EXCEPT !.t = "invalidJson"], PageResponse(page, size) }

VARIABLES
    pageSize,            \* useState pageSize, as of the latest render
    gridApi,             \* gridApiRef.current: "null" or "api"
    datasource,          \* page size the datasource given to the grid closes over
    cacheBlockSize,      \* grid option cacheBlockSize
    paginationPageSize,  \* grid option paginationPageSize
    currentPage,         \* grid pagination page
    cache,               \* the grid's infinite-cache blocks
    requests,            \* every getRows call, in call order
    httpLog,             \* every fetch() issued, in call order
    apiCalls,            \* number of GridApi calls made so far
    purges,              \* number of purgeInfiniteCache calls made so far
    changes,             \* number of page-size selections so far
    selected             \* the option picked last in the <select>

vars == <<pageSize, gridApi, datasource, cacheBlockSize, paginationPageSize,
          currentPage, cache, requests, httpLog, apiCalls, purges,
          changes, selected>>

gridVars == <<gridApi, datasource, cacheBlockSize, paginationPageSize,
              currentPage, cache, apiCalls, purges>>

Init ==
    /\ pageSize = InitialPageSize
    /\ gridApi = "null"
    /\ datasource = Unset
    /\ cacheBlockSize = Unset
    /\ paginationPageSize = Unset
    /\ currentPage = 0
    /\ cache = {}
    /\ requests = <<>>
    /\ httpLog = <<>>
    /\ apiCalls = 0
    /\ purges = 0
    /\ changes = 0
    /\ selected = InitialPageSize

\* ------------------------------------------------------ buildDatasource
\* The datasource object is its closure: the pageSize of the render whose
\* buildDatasource made it.
buildDatasource(ps) == ps

\* const startRow = params.startRow ?? 0
ResolveStartRow(params) ==
    IF params.startRow = Absent THEN 0 ELSE params.startRow

\* const endRow = params.endRow ?? startRow + pageSize
ResolveEndRow(params, size) ==
    IF params.endRow = Absent THEN ResolveStartRow(params) + size ELSE params.endRow

\* Variants of the page computation: rounding up, and a running cursor
\* that ignores the window.
PageIndexCeil(startRow, size) == (startRow + size - 1) \div size
PageIndexCursor(startRow, size) == Len(requests)

\* const page = Math.floor(startRow / size)
PageIndex(startRow, size) == startRow \div size

\* Variant of res.ok: only a 5xx status counts as an error.
ResOkBelow500(status) == status >= 200 /\ status < 500

\* res.ok
ResOk(status) == status >= 200 /\ status <= 299

\* Variant of the url: size is the component's pageSize of the moment, not
\* the size the page index was computed with.
FetchUrlLiveSize(page, size) == [page |-> page, size |-> pageSize]

\* `${API_BASE}/api/posts?page=${page}&size=${size}`
FetchUrl(page, size) == [page |-> page, size |-> size]

\* getRows from its entry to `await fetch(...)`, called on the datasource
\* bound to boundSize.
GetRowsEnter(params, boundSize, blk) ==
    LET startRow == ResolveStartRow(params)
        endRow == ResolveEndRow(params, boundSize)
        size == boundSize
        page == PageIndex(startRow, size)
    IN  [startRow |-> params.startRow, endRow |-> params.endRow,
         start |-> startRow, end |-> endRow,
         block |-> blk, blockSize |-> cacheBlockSize,
         boundSize |-> boundSize, cfgSize |-> pageSize, epoch |-> changes,
         purges |-> purges,
         page |-> page, size |-> size, url |-> FetchUrl(page, size),
         pc |-> "fetch", status |-> Absent, body |-> NoBody,
         successCalls |-> 0, failCalls |-> 0,
         rows |-> Undefined, total |-> Undefined, failPayload |-> Undefined]

\* Variant of the success call: lastRow is the number of rows in the page.
CallSuccessRowCount(r, rowData, lastRow) ==
    [r EXCEPT !.successCalls = @ + 1, !.rows = rowData,
              !.total = Num(Len(rowData.a))]

\* params.successCallback(rowData, lastRow)
CallSuccess(r, rowData, lastRow) ==
    [r EXCEPT !.successCalls = @ + 1, !.rows = rowData, !.total = lastRow]

\* params.failCallback()
CallFail(r) ==
    [r EXCEPT !.failCalls = @ + 1, !.failPayload = Undefined]

\* What the grid does with a block when its callback runs: a block that
\* was purged meanwhile is gone and stays gone.
SettleBlock(i, state) ==
    {IF b.req = i THEN [b EXCEPT !.state = state] ELSE b : b \in cache}

\* `await fetch` failed or `!res.ok`: control goes to the catch clause.
FetchThrows(outcome) == outcome = TransportError \/ ~ResOk(outcome)

\* `await res.json()` rejects on text that is not JSON; `data.content`
\* throws a TypeError when data is null.  Any other value is read as it is.
JsonThrows(body) == body.t \in {"invalidJson", "null"}

\* Variant of the catch clause: the error is swallowed, failCallback is not
\* called.
AfterFetchSwallow(r, outcome) ==
    IF FetchThrows(outcome)
    THEN [r EXCEPT !.status = outcome, !.pc = "done"]
    ELSE [r EXCEPT !.status = outcome, !.pc = "json"]

\* getRows resumed after `await fetch(...)`, up to `await res.json()` or
\* through the catch clause.
AfterFetch(r, outcome) ==
    IF FetchThrows(outcome)
    THEN [CallFail(r) EXCEPT !.status = outcome, !.pc = "done"]
    ELSE [r EXCEPT !.status = outcome, !.pc = "json"]

\* Variant of the end of getRows: failCallback in a finally clause.
AfterJsonFinally(r, body) ==
    IF JsonThrows(body)
    THEN [CallFail(r) EXCEPT !.body = body, !.pc = "done"]
    ELSE [CallFail(CallSuccess(r, body.content, body.totalElements))
             EXCEPT !.body = body, !.pc = "done"]

\* getRows resumed after `await res.json()`, to its end.
AfterJson(r, body) ==
    IF JsonThrows(body)
    THEN [CallFail(r) EXCEPT !.body = body, !.pc = "done"]
    ELSE [CallSuccess(r, body.content, body.totalElements)
             EXCEPT !.body = body, !.pc = "done"]

\* ------------------------------------------------------------- actions
\* onGridReady: the grid fires it once per grid.
onGridReady ==
    /\ gridApi = "null"
    /\ gridApi' = "api"
    /\ cacheBlockSize' = pageSize
    /\ paginationPageSize' = pageSize
    /\ datasource' = buildDatasource(pageSize)
    /\ apiCalls' = apiCalls + 3
    /\ UNCHANGED <<pageSize, currentPage, cache, purges, requests, httpLog,
                   changes, selected>>

\* Variant of onChangePageSize: the cache is not purged.
onChangePageSizeNoPurge(next) ==
    /\ changes < MaxChanges
    /\ next # pageSize
    /\ pageSize' = next
    /\ changes' = changes + 1
    /\ selected' = next
    /\ IF gridApi = "null"
       THEN UNCHANGED gridVars
       ELSE /\ cacheBlockSize' = next
            /\ paginationPageSize' = next
            /\ currentPage' = 0
            /\ apiCalls' = apiCalls + 3
            /\ UNCHANGED <<gridApi, datasource, cache, purges>>
    /\ UNCHANGED <<requests, httpLog>>

\* Variant of onChangePageSize: no `if (!api) return`.
onChangePageSizeNoGuard(next) ==
    /\ changes < MaxChanges
    /\ next # pageSize
    /\ pageSize' = next
    /\ changes' = changes + 1
    /\ selected' = next
    /\ cacheBlockSize' = next
    /\ paginationPageSize' = next
    /\ currentPage' = 0
    /\ cache' = {}
    /\ purges' = purges + 1
    /\ apiCalls' = apiCalls + 4
    /\ UNCHANGED <<gridApi, datasource, requests, httpLog>>

\* Variant of onChangePageSize: the fetches in flight are aborted and their
\* getRows calls end without a continuation call.
onChangePageSizeAbort(next) ==
    /\ changes < MaxChanges
    /\ next # pageSize
    /\ pageSize' = next
    /\ changes' = changes + 1
    /\ selected' = next
    /\ IF gridApi = "null"
       THEN UNCHANGED gridVars
       ELSE /\ cacheBlockSize' = next
            /\ paginationPageSize' = next
            /\ currentPage' = 0
            /\ cache' = {}
            /\ purges' = purges + 1
            /\ apiCalls' = apiCalls + 4
            /\ UNCHANGED <<gridApi, datasource>>
    /\ requests' = [i \in DOMAIN requests |-> [requests[i] EXCEPT !.pc = "done"]]
    /\ UNCHANGED httpLog

\* onChangePageSize(next), then the re-render that commits setPageSize.
onChangePageSize(next) ==
    /\ changes < MaxChanges
    /\ next # pageSize
    /\ pageSize' = next
    /\ changes' = changes + 1
    /\ selected' = next
    /\ IF gridApi = "null"
       THEN UNCHANGED gridVars
       ELSE /\ cacheBlockSize' = next
            /\ paginationPageSize' = next
            /\ currentPage' = 0
            /\ cache' = {}
            /\ purges' = purges + 1
            /\ apiCalls' = apiCalls + 4
            /\ UNCHANGED <<gridApi, datasource>>
    /\ UNCHANGED <<requests, httpLog>>

\* The user pages through the grid's pagination panel.
GoToPage(p) ==
    /\ gridApi = "api"
    /\ p # currentPage
    /\ currentPage' = p
    /\ UNCHANGED <<pageSize, gridApi, datasource, cacheBlockSize,
                   paginationPageSize, cache, requests, httpLog, apiCalls,
                   purges, changes, selected>>

\* The grid needs the block of the page it shows and has none: it makes a
\* block and calls getRows on its datasource for the block's rows.
LoadBlock ==
    /\ datasource # Unset
    /\ Len(requests) < MaxRequests
    /\ \A b \in cache : b.block # currentPage
    /\ LET i == Len(requests) + 1
           params == [startRow |-> currentPage * cacheBlockSize,
                      endRow |-> (currentPage + 1) * cacheBlockSize]
           r == GetRowsEnter(params, datasource, currentPage)
       IN  /\ requests' = Append(requests, r)
           /\ httpLog' = Append(httpLog, [req |-> i, url |-> r.url])
           /\ cache' = cache \cup {[block |-> currentPage, req |-> i, state |-> "loading"]}
    /\ UNCHANGED <<pageSize, gridApi, datasource, cacheBlockSize,
                   paginationPageSize, currentPage, apiCalls, purges, changes,
                   selected>>

\* The fetch of request i settles and getRows resumes.
FetchSettled(i, outcome) ==
    /\ requests[i].pc = "fetch"
    /\ LET r == AfterFetch(requests[i], outcome)
       IN  /\ requests' = [requests EXCEPT ![i] = r]
           /\ cache' = IF r.pc = "done" THEN SettleBlock(i, "failed") ELSE cache
    /\ UNCHANGED <<pageSize, gridApi, datasource, cacheBlockSize,
                   paginationPageSize, currentPage, httpLog, apiCalls, purges,
                   changes, selected>>

\* Variant of the end of getRows: the continuations are those of the latest
\* getRows call (params kept in one shared place), not of the call resumed.
JsonSettledToLatest(i, body) ==
    /\ requests[i].pc = "json"
    /\ LET j == Len(requests)
           ended == [requests EXCEPT ![i].pc = "done", ![i].body = body]
           r == IF JsonThrows(body)
                THEN CallFail(ended[j])
                ELSE CallSuccess(ended[j], body.content, body.totalElements)
       IN  /\ requests' = [ended EXCEPT ![j] = r]
           /\ cache' = SettleBlock(j, IF r.successCalls > 0 THEN "loaded" ELSE "failed")
    /\ UNCHANGED <<pageSize, gridApi, datasource, cacheBlockSize,
                   paginationPageSize, currentPage, httpLog, apiCalls, purges,
                   changes, selected>>

\* Variant of the end of getRows: the grid's page size is set from the
\* size the envelope reports.
JsonSettledSyncSize(i, body) ==
    /\ requests[i].pc = "json"
    /\ LET r == AfterJson(requests[i], body)
       IN  /\ requests' = [requests EXCEPT ![i] = r]
           /\ cache' = SettleBlock(i, IF r.successCalls > 0 THEN "loaded" ELSE "failed")
    /\ paginationPageSize' =
          (IF body.size.t = "number" THEN body.size.n ELSE paginationPageSize)
    /\ UNCHANGED <<pageSize, gridApi, datasource, cacheBlockSize,
                   currentPage, httpLog, apiCalls, purges, changes, selected>>

\* The body of request i's response has been read and getRows resumes.
JsonSettled(i, body) ==
    /\ requests[i].pc = "json"
    /\ LET r == AfterJson(requests[i], body)
       IN  /\ requests' = [requests EXCEPT ![i] = r]
           /\ cache' = SettleBlock(i, IF r.successCalls > 0 THEN "loaded" ELSE "failed")
    /\ UNCHANGED <<pageSize, gridApi, datasource, cacheBlockSize,
                   paginationPageSize, currentPage, httpLog, apiCalls, purges,
                   changes, selected>>

Next ==
    \/ onGridReady
    \/ \E next \in pageSizeOptions : onChangePageSize(next)
    \/ \E p \in 0..MaxBlock : GoToPage(p)
    \/ LoadBlock
    \/ \E i \in DOMAIN requests, outcome \in GridOutcomes : FetchSettled(i, outcome)
    \/ \E i \in DOMAIN requests :
          \E body \in GridBodies(requests[i].page, requests[i].size) :
             JsonSettled(i, body)

Spec == Init /\ [][Next]_vars

\* The HTTP call of request i completes: its fetch settles, and the body of
\* a response is read to its end.  The event loop then resumes getRows.
Responds(i) ==
    /\ i \in DOMAIN requests
    /\ \E outcome \in Outcomes : FetchSettled(i, outcome)

BodyRead(i) ==
    /\ i \in DOMAIN requests
    /\ \E body \in Bodies(requests[i].page, requests[i].size) : JsonSettled(i, body)

\* The page with the grid on its first row block: the grid is made ready,
\* the page size is changed, block 0 is requested (again after each purge),
\* and every HTTP call may end in any status and any body.
NextLive ==
    \/ onGridReady
    \/ \E next \in pageSizeOptions : onChangePageSize(next)
    \/ LoadBlock
    \/ \E i \in DOMAIN requests : Responds(i)
    \/ \E i \in DOMAIN requests : BodyRead(i)

SpecLive ==
    /\ Init /\ [][NextLive]_vars
    /\ \A i \in 1..MaxRequests : WF_vars(Responds(i)) /\ WF_vars(BodyRead(i))

\* ------------------------------------------------- the datasource alone
\* getRows called on the datasource of a grid that became ready at page
\* size S, with params whose fields may be missing (`?? 0`,
\* `?? startRow + pageSize`) and whose startRow need not be a multiple of S.
DirectParams ==
    { [startRow |-> Absent, endRow |-> Absent],
      [startRow |-> 25, endRow |-> 35],
      [startRow |-> 100, endRow |-> Absent] }

\* Variant of getRows: a window asked for before is answered from the
\* earlier call and no fetch is made.
GetRowsDedupe(params) ==
    /\ datasource # Unset
    /\ Len(requests) < MaxRequests
    /\ LET i == Len(requests) + 1
           r == GetRowsEnter(params, datasource, NoBlock)
           seen == \E k \in DOMAIN requests :
                      /\ requests[k].startRow = params.startRow
                      /\ requests[k].endRow = params.endRow
       IN  /\ requests' = Append(requests, r)
           /\ httpLog' = IF seen THEN httpLog
                         ELSE Append(httpLog, [req |-> i, url |-> r.url])
    /\ UNCHANGED <<pageSize, gridApi, datasource, cacheBlockSize,
                   paginationPageSize, currentPage, cache, apiCalls, purges,
                   changes, selected>>

GetRows(params) ==
    /\ datasource # Unset
    /\ Len(requests) < MaxRequests
    /\ LET i == Len(requests) + 1
           r == GetRowsEnter(params, datasource, NoBlock)
       IN  /\ requests' = Append(requests, r)
           /\ httpLog' = Append(httpLog, [req |-> i, url |-> r.url])
    /\ UNCHANGED <<pageSize, gridApi, datasource, cacheBlockSize,
                   paginationPageSize, currentPage, cache, apiCalls, purges,
                   changes, selected>>

\* The grid right after onGridReady, for each page size it can be ready at.
InitReady ==
    \E S \in pageSizeOptions :
        /\ pageSize = S
        /\ gridApi = "api"
        /\ datasource = buildDatasource(S)
        /\ cacheBlockSize = S
        /\ paginationPageSize = S
        /\ currentPage = 0
        /\ cache = {}
        /\ requests = <<>>
        /\ httpLog = <<>>
        /\ apiCalls = 3
        /\ purges = 0
        /\ changes = (IF S = InitialPageSize THEN 0 ELSE 1)
        /\ selected = S

NextGetRows ==
    \/ \E params \in DirectParams : GetRows(params)
    \/ \E i \in DOMAIN requests, outcome \in Outcomes : FetchSettled(i, outcome)
    \/ \E i \in DOMAIN requests :
          \E body \in Bodies(requests[i].page, requests[i].size) :
             JsonSettled(i, body)

SpecGetRows == InitReady /\ [][NextGetRows]_vars

\* ---------------------------------------------------------------- claims
IsSuccessStatus(status) == status \in 200..299

\* The page-envelope shape {content, page, size, totalElements, totalPages}.
IsEnvelope(body) ==
    /\ body.t = "object"
    /\ body.content.t = "array"
    /\ body.page.t = "number"
    /\ body.size.t = "number"
    /\ body.totalElements.t = "number"
    /\ body.totalPages.t = "number"

Fetches(i) == {k \in DOMAIN httpLog : httpLog[k].req = i}

\* C1: after onPageSizeChange(newSize) with the grid attached, a window
\* request with startRow = 0 asks the endpoint for page 0 with size newSize.
C1_RequestAfterChangeUsesNewSize ==
    \A i \in DOMAIN requests :
        (requests[i].purges > 0 /\ requests[i].start = 0) =>
            \A k \in Fetches(i) :
                /\ httpLog[k].url.page = 0
                /\ httpLog[k].url.size = requests[i].cfgSize

\* C2: a getRows call on a datasource bound to S issues one HTTP request,
\* with page = floor(startRow / S), startRow taken as 0 when absent, and
\* size = S, aligned or not.
C2_PageIsFloorOfStartRow ==
    \A i \in DOMAIN requests :
        LET start == IF requests[i].startRow = Absent THEN 0
                     ELSE requests[i].startRow
            S == datasource
        IN  /\ Cardinality(Fetches(i)) = 1
            /\ \A k \in Fetches(i) :
                  /\ httpLog[k].url.size = S
                  /\ httpLog[k].url.page * S <= start
                  /\ start < (httpLog[k].url.page + 1) * S

C2_Witness ==
    /\ datasource = 10
    /\ \E i \in DOMAIN requests :
          /\ requests[i].startRow = 25
          /\ httpLog[i] = [req |-> i, url |-> [page |-> 2, size |-> 10]]
    /\ \E i \in DOMAIN requests :
          /\ requests[i].startRow = Absent
          /\ httpLog[i].url.page = 0

C4_TransportFailureCallsFailOnly ==
    \A i \in DOMAIN requests :
        (/\ requests[i].pc = "done"
         /\ requests[i].status # Absent
         /\ ~IsSuccessStatus(requests[i].status)) =>
            /\ requests[i].failCalls = 1
            /\ requests[i].failPayload = Undefined
            /\ requests[i].successCalls = 0
            /\ requests[i].rows = Undefined

C4_Witness ==
    \E i, j \in DOMAIN requests :
        /\ requests[i].pc = "done" /\ requests[i].status = 404
        /\ requests[i].failCalls = 1
        /\ requests[j].pc = "done" /\ requests[j].status = TransportError
        /\ requests[j].failCalls = 1

\* C5: a 2xx response whose body is not the page envelope (not JSON, or
\* JSON lacking or mistyping content or totalElements) gets the failure
\* continuation and never the success continuation.
C5_MalformedBodyCallsFailOnly ==
    \A i \in DOMAIN requests :
        (/\ requests[i].pc = "done"
         /\ IsSuccessStatus(requests[i].status)
         /\ ~IsEnvelope(requests[i].body)) =>
            /\ requests[i].failCalls = 1
            /\ requests[i].successCalls = 0

\* C6: a successful fetch whose envelope holds content of length
\* L <= pageSize and totalElements T gets the success continuation with
\* that content, in order, and T.
C6_SuccessDeliversContentAndTotal ==
    \A i \in DOMAIN requests :
        (/\ requests[i].pc = "done"
         /\ IsSuccessStatus(requests[i].status)
         /\ IsEnvelope(requests[i].body)
         /\ Len(requests[i].body.content.a) <= requests[i].boundSize) =>
            /\ requests[i].successCalls = 1
            /\ requests[i].failCalls = 0
            /\ requests[i].rows = requests[i].body.content
            /\ requests[i].total = requests[i].body.totalElements

C6_Witness ==
    \E i \in DOMAIN requests :
        /\ requests[i].pc = "done"
        /\ IsEnvelope(requests[i].body)
        /\ requests[i].successCalls = 1
        /\ Len(requests[i].rows.a) > 0
        /\ Len(requests[i].rows.a) < requests[i].boundSize
        /\ requests[i].total = Num(BackendTotal)

\* C7: once onPageSizeChange(newSize) has run with the grid attached,
\* pageSize, cacheBlockSize and paginationPageSize are newSize, pagination
\* is on the first page and the cache holds no block fetched before.
C7_ChangeReconfiguresGrid ==
    [][(gridApi = "api" /\ changes' = changes + 1) =>
          /\ pageSize' = selected'
          /\ cacheBlockSize' = selected'
          /\ paginationPageSize' = selected'
          /\ currentPage' = 0
          /\ \A b \in cache' : b.req \notin DOMAIN requests]_vars

C7_Witness ==
    /\ purges = 1
    /\ pageSize = 50 /\ cacheBlockSize = 50 /\ paginationPageSize = 50
    /\ currentPage = 0
    /\ cache = {}
    /\ \E i \in DOMAIN requests :
          /\ requests[i].purges = 0
          /\ requests[i].block = 1
          /\ requests[i].successCalls = 1

\* C8: onPageSizeChange with no grid attached changes pageSize and nothing
\* of the grid; the grid that attaches later is configured with, and given
\* a datasource bound to, the pageSize of that moment.
C8_ChangeBeforeReadySkipsGrid ==
    [][/\ (gridApi = "null" /\ changes' = changes + 1) =>
             /\ pageSize' = selected'
             /\ UNCHANGED <<gridVars, requests, httpLog>>
       /\ (gridApi = "null" /\ gridApi' = "api") =>
             /\ cacheBlockSize' = pageSize
             /\ paginationPageSize' = pageSize
             /\ datasource' = pageSize
             /\ pageSize' = pageSize]_vars

C8_Witness ==
    /\ gridApi = "api"
    /\ changes = 1 /\ purges = 0
    /\ pageSize = 50
    /\ datasource = 50 /\ cacheBlockSize = 50 /\ paginationPageSize = 50

C10_DatasourceBoundToPageSize ==
    gridApi = "api" => datasource = pageSize

\* C11: the size a request's page index is computed with is the size sent
\* in its HTTP request and the size its datasource is bound to; no later
\* step, a page-size change included, alters the (page, size) of a request.
C11_RequestKeepsItsPageAndSize ==
    /\ [](\A i \in DOMAIN requests :
            /\ httpLog[i].req = i
            /\ httpLog[i].url.size = datasource
            /\ requests[i].size = httpLog[i].url.size
            /\ requests[i].page = httpLog[i].url.page
            /\ httpLog[i].url.page * httpLog[i].url.size <= requests[i].start
            /\ requests[i].start < (httpLog[i].url.page + 1) * httpLog[i].url.size)
    /\ [][\A i \in DOMAIN requests :
            /\ httpLog'[i] = httpLog[i]
            /\ requests'[i].page = requests[i].page
            /\ requests'[i].size = requests[i].size]_vars

C11_Witness ==
    \E i \in DOMAIN requests :
        /\ requests[i].pc = "fetch"
        /\ requests[i].epoch < changes
        /\ requests[i].cfgSize = 10 /\ pageSize = 50
        /\ httpLog[i].url = [page |-> 1, size |-> 10]

C13_ChangeCancelsNothing ==
    \A i \in DOMAIN requests :
        requests[i].epoch < changes =>
            IF requests[i].pc = "done"
            THEN /\ requests[i].status # Absent
                 /\ requests[i].successCalls + requests[i].failCalls = 1
                 /\ requests[i].successCalls = 1 <=>
                       (IsSuccessStatus(requests[i].status) /\ IsEnvelope(requests[i].body))
                 /\ requests[i].successCalls = 1 =>
                       requests[i].rows = requests[i].body.content
            ELSE requests[i].successCalls + requests[i].failCalls = 0

C13_Witness ==
    \E i, j \in DOMAIN requests :
        /\ requests[i].epoch < changes /\ requests[j].epoch < changes
        /\ requests[i].pc = "done" /\ requests[i].successCalls = 1
        /\ requests[j].pc = "fetch"

\* C14: with several requests in flight and responses in any order, a
\* request's continuations run only for its own HTTP call: the rows it gets
\* are those of the page its own fetch asked for, and it gets a failure only
\* when its own call failed.
C14_ResponseGoesToItsOwnRequest ==
    \A i \in DOMAIN requests :
        LET r == requests[i]
            url == httpLog[i].url
        IN  /\ r.successCalls + r.failCalls > 0 =>
                  (r.pc = "done" /\ r.status # Absent)
            /\ r.successCalls > 0 => IsSuccessStatus(r.status)
            /\ (r.successCalls > 0 /\ r.rows.t = "array") =>
                  r.rows = Arr(PageContent(url.page, url.size))
            /\ r.failCalls > 0 =>
                  (~IsSuccessStatus(r.status) \/ r.body.t \in {"invalidJson", "null"})

C14_Witness ==
    \E i, j \in DOMAIN requests :
        /\ i < j
        /\ httpLog[i].url # httpLog[j].url
        /\ requests[i].pc = "fetch"
        /\ requests[j].pc = "done"
        /\ requests[j].successCalls = 1
        /\ requests[j].rows = Arr(PageContent(httpLog[j].url.page, httpLog[j].url.size))
        /\ Len(requests[j].rows.a) > 0

\* C15: every getRows call issues exactly one HTTP request: as many fetches
\* as calls, one for each call, also for a window asked for before and after
\* a failed fetch.
C15_OneFetchPerCall ==
    /\ Len(httpLog) = Len(requests)
    /\ \A i \in DOMAIN requests : \E k \in DOMAIN httpLog :
          /\ httpLog[k].req = i
          /\ \A m \in DOMAIN httpLog : httpLog[m].req = i => m = k

C15_Witness ==
    \E i, j \in DOMAIN requests :
        /\ i < j
        /\ requests[i].startRow = requests[j].startRow
        /\ requests[i].endRow = requests[j].endRow
        /\ requests[i].pc = "done" /\ requests[i].failCalls = 1
        /\ Len(httpLog) = 2
        /\ httpLog[i].url = httpLog[j].url

\* C16: every window request whose HTTP call completes eventually has one
\* of its continuations invoked, page-size changes in between or not.
C16_EveryRequestIsAnswered ==
    \A i \in 1..MaxRequests :
        (i \in DOMAIN requests) ~>
            (i \in DOMAIN requests
               /\ requests[i].successCalls + requests[i].failCalls = 1)

C16_Witness ==
    \E i \in DOMAIN requests :
        /\ requests[i].epoch < changes
        /\ requests[i].pc = "done"
        /\ requests[i].status = 404
        /\ requests[i].failCalls = 1

\* C17: when the grid asks for a block-aligned window
\* [startRow, startRow + cacheBlockSize) and the fetch succeeds, the success
\* continuation gets the backend rows startRow up to
\* min(startRow + cacheBlockSize, totalElements), in order.
C17_BlockGetsItsWholeWindow ==
    \A i \in DOMAIN requests :
        (/\ requests[i].block # NoBlock
         /\ requests[i].start = requests[i].block * requests[i].blockSize
         /\ requests[i].end = requests[i].start + requests[i].blockSize
         /\ requests[i].successCalls = 1) =>
            requests[i].rows =
                Arr(BackendRows(Min(requests[i].start, BackendTotal),
                                Min(requests[i].start + requests[i].blockSize,
                                    BackendTotal)))

\* C18: issuing a window request and receiving its response leave pageSize,
\* cacheBlockSize, paginationPageSize and the attached datasource as they
\* are; only onPageSizeChange and the grid-ready handler change them.
C18_RequestsLeaveConfigurationAlone ==
    [][/\ requests' # requests =>
             UNCHANGED <<pageSize, cacheBlockSize, paginationPageSize, datasource>>
       /\ ~UNCHANGED <<pageSize, cacheBlockSize, paginationPageSize, datasource>> =>
             (changes' = changes + 1 \/ (gridApi = "null" /\ gridApi' = "api"))]_vars

C18_Witness ==
    /\ purges = 1
    /\ pageSize = 50 /\ cacheBlockSize = 50 /\ paginationPageSize = 50
    /\ datasource = 10
    /\ \E i \in DOMAIN requests :
          /\ requests[i].epoch = changes
          /\ requests[i].successCalls = 1
          /\ requests[i].body.size = Num(10)

====
